---- MODULE Spec2Model ----
(***************************************************************************)
(* Model of the VGA text-mode console driver of heorot                     *)
(* (src/src/vga_buffer.rs) and of the callers of its print facade          *)
(* (src/src/main.rs).                                                      *)
(*                                                                         *)
(* Bytes are naturals 0..255, a &str is the sequence of its UTF-8 bytes,   *)
(* a ScreenChar is a record, the Buffer is a function row -> col -> cell.  *)
(* The Writer operations are operators on a Writer record, computed the    *)
(* way the code computes them; the actions apply them to the state.        *)
(***************************************************************************)
EXTENDS Integers, Sequences, FiniteSets, TLC

VARIABLES
    column_position,  \* Writer.column_position
    color_code,       \* Writer.color_code
    buffer,           \* the Buffer behind Writer.buffer: chars[row][col]
    log,              \* observation: one entry per write_byte call of the last operation
    panicked,         \* observation: an index went out of bounds (Rust panics)
    last,             \* observation: the last operation, its argument, the column before it
    nops,             \* number of operations performed so far
    device,           \* which device-memory contents the Writer was created over
    locked,           \* the spin::Mutex of WRITER is held
    interrupts,       \* the CPU's interrupt flag: interrupts are enabled
    stack,            \* the _print calls in progress, innermost last
    completed,        \* observation: the _print calls that returned, in order
    halted,           \* the panic handler reached hlt_loop
    ncalls,           \* number of _print calls issued by the normal code path
    nirqs,            \* number of interrupts taken
    once,             \* the Once behind lazy_static's WRITER: "INCOMPLETE" or "COMPLETE"
    ninit             \* observation: number of runs of WRITER's initializer

writer_vars == <<column_position, color_code, buffer, log, panicked, last, nops>>
print_vars == <<locked, interrupts, stack, completed, halted, ncalls, nirqs>>
init_vars == <<once, ninit>>
vars == <<writer_vars, device, print_vars, init_vars>>

(***************************************************************************)
(* Program constants and bounds                                            *)
(***************************************************************************)
BUFFER_HEIGHT == 25
BUFFER_WIDTH == 80

\* Length of the sequences of Writer operations explored.
MaxOps == 2
\* Number of print calls the normal code path issues.
MaxCalls == 2
\* Number of interrupts taken.
MaxIrqs == 1

Rows == 0 .. (BUFFER_HEIGHT - 1)
Cols == 0 .. (BUFFER_WIDTH - 1)

NEWLINE == 10
Printable == 32 .. 126

(***************************************************************************)
(* Color, ColorCode, ScreenChar                                            *)
(***************************************************************************)
Black == 0
Green == 2

RECURSIVE BitOr(_, _)
BitOr(a, b) ==
    IF a = 0 THEN b
    ELSE IF b = 0 THEN a
    ELSE (IF (a % 2 = 1) \/ (b % 2 = 1) THEN 1 ELSE 0) + 2 * BitOr(a \div 2, b \div 2)

\* The 16 values of enum Color, as their u8 codes
Color == 0 .. 15

\* Variant of ColorCode_new: the nibbles are swapped.
ColorCode_new_swapped(foreground, background) ==
    BitOr((foreground * 16) % 256, background)

\* (background as u8) << 4 | (foreground as u8), in u8 arithmetic
ColorCode_new(foreground, background) ==
    BitOr((background * 16) % 256, foreground)

ScreenChar(ch, cc) == [ascii_character |-> ch, color_code |-> cc]

(***************************************************************************)
(* Writer: a record [column_position, color_code, buffer] plus the         *)
(* observations log and panicked.                                          *)
(***************************************************************************)
Panic(w) == [w EXCEPT !.panicked = TRUE]

\* Variant of clear_row: the row is left as it is.
clear_row_kept(w, row) ==
    IF row \notin Rows THEN Panic(w) ELSE w

clear_row(w, row) ==
    LET blank == ScreenChar(32, w.color_code)
    IN  IF row \notin Rows
        THEN Panic(w)
        ELSE [w EXCEPT !.buffer[row] = [col \in Cols |-> blank]]

\* Variant of shift_rows: the copy goes the wrong way (row - 1 into row).
RECURSIVE shift_rows_down(_, _)
shift_rows_down(w, row) ==
    IF row >= BUFFER_HEIGHT \/ w.panicked THEN w
    ELSE IF row \notin Rows \/ (row - 1) \notin Rows
         THEN Panic(w)
         ELSE shift_rows_down([w EXCEPT !.buffer[row] =
                                   [col \in Cols |-> w.buffer[row - 1][col]]], row + 1)

\* for row in 1..BUFFER_HEIGHT { for col in 0..BUFFER_WIDTH { chars[row-1][col] = chars[row][col] } }
RECURSIVE shift_rows(_, _)
shift_rows(w, row) ==
    IF row >= BUFFER_HEIGHT \/ w.panicked THEN w
    ELSE IF row \notin Rows \/ (row - 1) \notin Rows
         THEN Panic(w)
         ELSE shift_rows([w EXCEPT !.buffer[row - 1] =
                              [col \in Cols |-> w.buffer[row][col]]], row + 1)

\* Variant of new_line: the row loop starts at row 2 (row 0 is never overwritten).
new_line_skip(w) ==
    LET shifted == shift_rows(w, 2)
        cleared == clear_row(shifted, BUFFER_HEIGHT - 1)
    IN  IF shifted.panicked \/ cleared.panicked
        THEN Panic(shifted)
        ELSE [cleared EXCEPT !.column_position = 0]

\* Variant of new_line: column_position is not reset.
new_line_nocr(w) ==
    LET shifted == shift_rows(w, 1)
        cleared == clear_row(shifted, BUFFER_HEIGHT - 1)
    IN  IF shifted.panicked \/ cleared.panicked
        THEN Panic(shifted)
        ELSE cleared

new_line(w) ==
    LET shifted == shift_rows(w, 1)
        cleared == clear_row(shifted, BUFFER_HEIGHT - 1)
    IN  IF shifted.panicked \/ cleared.panicked
        THEN Panic(shifted)
        ELSE [cleared EXCEPT !.column_position = 0]

\* One log entry per write_byte call: the number of new_line calls it made and
\* the cell it stored, <<row, col, character>>, or <<>> when it stored none.
Logged(w, scrolls, cell) ==
    [w EXCEPT !.log = Append(@, [scrolls |-> scrolls, cell |-> cell])]

\* Variants of write_byte.
\* The full-line test is off by one: column_position >= BUFFER_WIDTH - 1.
write_byte_eager(w, byte) ==
    IF byte = NEWLINE
    THEN LET w1 == new_line(w)
         IN  IF w1.panicked THEN w1 ELSE Logged(w1, 1, <<>>)
    ELSE LET full == w.column_position >= BUFFER_WIDTH - 1
             w1 == IF full THEN new_line(w) ELSE w
             row == BUFFER_HEIGHT - 1
             col == w1.column_position
         IN  IF w1.panicked THEN w1
             ELSE IF row \notin Rows \/ col \notin Cols
             THEN Panic(w1)
             ELSE Logged([w1 EXCEPT
                             !.buffer[row][col] = ScreenChar(byte, w1.color_code),
                             !.column_position = @ + 1],
                         IF full THEN 1 ELSE 0, <<row, col, byte>>)

\* The full-line test is column_position > BUFFER_WIDTH.
write_byte_gt(w, byte) ==
    IF byte = NEWLINE
    THEN LET w1 == new_line(w)
         IN  IF w1.panicked THEN w1 ELSE Logged(w1, 1, <<>>)
    ELSE LET full == w.column_position > BUFFER_WIDTH
             w1 == IF full THEN new_line(w) ELSE w
             row == BUFFER_HEIGHT - 1
             col == w1.column_position
         IN  IF w1.panicked THEN w1
             ELSE IF row \notin Rows \/ col \notin Cols
             THEN Panic(w1)
             ELSE Logged([w1 EXCEPT
                             !.buffer[row][col] = ScreenChar(byte, w1.color_code),
                             !.column_position = @ + 1],
                         IF full THEN 1 ELSE 0, <<row, col, byte>>)

\* On a full line the byte scrolls the screen and is dropped.
write_byte_stall(w, byte) ==
    IF byte = NEWLINE
    THEN LET w1 == new_line(w)
         IN  IF w1.panicked THEN w1 ELSE Logged(w1, 1, <<>>)
    ELSE LET full == w.column_position >= BUFFER_WIDTH
             w1 == IF full THEN new_line(w) ELSE w
             row == BUFFER_HEIGHT - 1
             col == w1.column_position
         IN  IF w1.panicked THEN w1
             ELSE IF full THEN Logged(w1, 1, <<>>)
             ELSE IF row \notin Rows \/ col \notin Cols
             THEN Panic(w1)
             ELSE Logged([w1 EXCEPT
                             !.buffer[row][col] = ScreenChar(byte, w1.color_code),
                             !.column_position = @ + 1],
                         0, <<row, col, byte>>)

\* The full-line test comes first: a newline on a full line scrolls twice.
write_byte_fullnl(w, byte) ==
    LET full == w.column_position >= BUFFER_WIDTH
        w1 == IF full THEN new_line(w) ELSE w
    IN  IF w1.panicked THEN w1
        ELSE IF byte = NEWLINE
        THEN LET w2 == new_line(w1)
             IN  IF w2.panicked THEN w2 ELSE Logged(w2, IF full THEN 2 ELSE 1, <<>>)
        ELSE LET row == BUFFER_HEIGHT - 1
                 col == w1.column_position
             IN  IF row \notin Rows \/ col \notin Cols
                 THEN Panic(w1)
                 ELSE Logged([w1 EXCEPT
                                 !.buffer[row][col] = ScreenChar(byte, w1.color_code),
                                 !.column_position = @ + 1],
                             IF full THEN 1 ELSE 0, <<row, col, byte>>)

\* The cell is stored with attribute 0 instead of the Writer's color_code.
write_byte_nocolor(w, byte) ==
    IF byte = NEWLINE
    THEN LET w1 == new_line(w)
         IN  IF w1.panicked THEN w1 ELSE Logged(w1, 1, <<>>)
    ELSE LET full == w.column_position >= BUFFER_WIDTH
             w1 == IF full THEN new_line(w) ELSE w
             row == BUFFER_HEIGHT - 1
             col == w1.column_position
         IN  IF w1.panicked THEN w1
             ELSE IF row \notin Rows \/ col \notin Cols
             THEN Panic(w1)
             ELSE Logged([w1 EXCEPT
                             !.buffer[row][col] = ScreenChar(byte, 0),
                             !.column_position = @ + 1],
                         IF full THEN 1 ELSE 0, <<row, col, byte>>)

\* Variant of write_byte: the line is wrapped as soon as it is full, after the
\* write that fills it.
write_byte_wrap_after(w, byte) ==
    IF byte = NEWLINE
    THEN LET w1 == new_line(w)
         IN  IF w1.panicked THEN w1 ELSE Logged(w1, 1, <<>>)
    ELSE LET row == BUFFER_HEIGHT - 1
             col == w.column_position
         IN  IF row \notin Rows \/ col \notin Cols
             THEN Panic(w)
             ELSE LET w1 == [w EXCEPT
                                !.buffer[row][col] = ScreenChar(byte, w.color_code),
                                !.column_position = @ + 1]
                      full == w1.column_position >= BUFFER_WIDTH
                  IN  Logged(IF full THEN new_line(w1) ELSE w1,
                             IF full THEN 1 ELSE 0, <<row, col, byte>>)

\* Variant of write_byte: the cells after the written one are blanked as well.
write_byte_clear_rest(w, byte) ==
    IF byte = NEWLINE
    THEN LET w1 == new_line(w)
         IN  IF w1.panicked THEN w1 ELSE Logged(w1, 1, <<>>)
    ELSE LET full == w.column_position >= BUFFER_WIDTH
             w1 == IF full THEN new_line(w) ELSE w
             row == BUFFER_HEIGHT - 1
             col == w1.column_position
         IN  IF w1.panicked THEN w1
             ELSE IF row \notin Rows \/ col \notin Cols
             THEN Panic(w1)
             ELSE Logged([w1 EXCEPT
                             !.buffer[row] =
                                 [c \in Cols |->
                                     IF c < col THEN w1.buffer[row][c]
                                     ELSE IF c = col THEN ScreenChar(byte, w1.color_code)
                                     ELSE ScreenChar(32, w1.color_code)],
                             !.column_position = @ + 1],
                         IF full THEN 1 ELSE 0, <<row, col, byte>>)

write_byte(w, byte) ==
    IF byte = NEWLINE
    THEN LET w1 == new_line(w)
         IN  IF w1.panicked THEN w1 ELSE Logged(w1, 1, <<>>)
    ELSE LET full == w.column_position >= BUFFER_WIDTH
             w1 == IF full THEN new_line(w) ELSE w
             row == BUFFER_HEIGHT - 1
             col == w1.column_position
         IN  IF w1.panicked THEN w1
             ELSE IF row \notin Rows \/ col \notin Cols
             THEN Panic(w1)
             ELSE Logged([w1 EXCEPT
                             !.buffer[row][col] = ScreenChar(byte, w1.color_code),
                             !.column_position = @ + 1],
                         IF full THEN 1 ELSE 0, <<row, col, byte>>)

\* Variants of write_string's loop.
\* Every byte is passed to write_byte unchanged.
RECURSIVE write_string_from_raw(_, _, _)
write_string_from_raw(w, s, i) ==
    IF i > Len(s) \/ w.panicked THEN w
    ELSE write_string_from_raw(write_byte(w, s[i]), s, i + 1)

\* The printable range is 0x20..=0x7f.
RECURSIVE write_string_from_del(_, _, _)
write_string_from_del(w, s, i) ==
    IF i > Len(s) \/ w.panicked THEN w
    ELSE write_string_from_del(
             IF s[i] \in 32 .. 127 \/ s[i] = NEWLINE
             THEN write_byte(w, s[i])
             ELSE write_byte(w, 254),
             s, i + 1)

RECURSIVE write_string_from(_, _, _)
write_string_from(w, s, i) ==
    IF i > Len(s) \/ w.panicked THEN w
    ELSE write_string_from(
             IF s[i] \in Printable \/ s[i] = NEWLINE
             THEN write_byte(w, s[i])
             ELSE write_byte(w, 254),
             s, i + 1)

write_string(w, s) == write_string_from(w, s, 1)

\* Variant of write_str: a string with a byte that is neither printable nor a
\* newline is rejected with Err, and nothing is written.
write_str_strict(w, s) ==
    IF \A i \in 1 .. Len(s) : s[i] \in Printable \/ s[i] = NEWLINE
    THEN [writer |-> write_string(w, s), result |-> "Ok"]
    ELSE [writer |-> w, result |-> "Err"]

\* fmt::Write::write_str: write_string, then Ok(())
write_str(w, s) == [writer |-> write_string(w, s), result |-> "Ok"]

(***************************************************************************)
(* The state as a Writer record, and back                                  *)
(***************************************************************************)
Self ==
    [column_position |-> column_position, color_code |-> color_code,
     buffer |-> buffer, log |-> <<>>, panicked |-> panicked]

Becomes(w) ==
    /\ column_position' = w.column_position
    /\ color_code' = w.color_code
    /\ buffer' = w.buffer
    /\ log' = w.log
    /\ panicked' = w.panicked

(***************************************************************************)
(* Inputs                                                                  *)
(***************************************************************************)
Rep(n, b) == [i \in 1 .. n |-> b]

\* "Test string that fits on a single line"
TestString ==
    <<84, 101, 115, 116, 32, 115, 116, 114, 105, 110, 103, 32, 116, 104, 97,
      116, 32, 102, 105, 116, 115, 32, 111, 110, 32, 97, 32, 115, 105, 110,
      103, 108, 101, 32, 108, 105, 110, 101>>

\* "a\0\x7f" "e-acute" "\n" "b~": control bytes, a two-byte UTF-8 character, a newline
MixedString == <<97, 0, 127, 195, 169, 10, 98, 126>>

ByteInputs == {NEWLINE, 32, 65, 126, 0, 127, 254}

StringInputs ==
    {<<>>, TestString, MixedString, Rep(BUFFER_WIDTH, 120),
     Rep(BUFFER_WIDTH + 1, 121), <<NEWLINE>>,
     Rep(BUFFER_HEIGHT, NEWLINE), Rep(BUFFER_HEIGHT - 1, NEWLINE)}

StrInputs == {TestString, MixedString}

LineInputs == {<<>>, TestString, Rep(BUFFER_WIDTH, 122)}

(***************************************************************************)
(* Initial states                                                          *)
(*                                                                         *)
(* The Writer is created with column_position 0 over device memory whose   *)
(* contents the program does not set: two contents are explored.  The      *)
(* initial states also hold the states reached from there by writing c     *)
(* bytes 'x' (0 <= c <= 80), which is how every column is reached.         *)
(***************************************************************************)
DeviceMemory(p) ==
    IF p = 0
    THEN [row \in Rows |-> [col \in Cols |-> ScreenChar(0, 0)]]
    ELSE [row \in Rows |-> [col \in Cols |-> ScreenChar((row * 3 + col) % 256, 7)]]

Patterns == {0, 1}
InitCols == {0, 1, 40, 79, 80}

WRITER(p) ==
    [column_position |-> 0,
     color_code |-> ColorCode_new(Green, Black),
     buffer |-> DeviceMemory(p),
     log |-> <<>>, panicked |-> FALSE]

Init ==
    \E p \in Patterns, c \in InitCols :
        LET w == write_string(WRITER(p), Rep(c, 120))
        IN  /\ column_position = w.column_position
            /\ color_code = w.color_code
            /\ buffer = w.buffer
            /\ log = <<>>
            /\ panicked = FALSE
            /\ last = [op |-> "init", arg |-> <<>>, col0 |-> 0, result |-> "Ok"]
            /\ nops = 0
            /\ device = p
            /\ locked = FALSE
            /\ interrupts = FALSE
            /\ stack = <<>>
            /\ completed = <<>>
            /\ halted = FALSE
            /\ ncalls = 0
            /\ nirqs = 0
            /\ once = "COMPLETE"
            /\ ninit = 1

(***************************************************************************)
(* Actions of the Writer specification: one per public operation           *)
(***************************************************************************)
Did(op, arg, result) ==
    /\ last' = [op |-> op, arg |-> arg, col0 |-> column_position, result |-> result]
    /\ nops' = nops + 1
    /\ UNCHANGED <<device, print_vars, init_vars>>

CanOperate == nops < MaxOps /\ ~panicked

WriteByte ==
    \E b \in ByteInputs :
        /\ CanOperate
        /\ Becomes(write_byte(Self, b))
        /\ Did("write_byte", <<b>>, "Ok")

WriteString ==
    \E s \in StringInputs :
        /\ CanOperate
        /\ Becomes(write_string(Self, s))
        /\ Did("write_string", s, "Ok")

WriteStr ==
    \E s \in StrInputs :
        LET r == write_str(Self, s)
        IN  /\ CanOperate
            /\ Becomes(r.writer)
            /\ Did("write_str", s, r.result)

\* writeln!(writer, "\n{}", s): write_fmt feeds the pieces "\n", s, "\n" to write_str
Writeln ==
    \E s \in LineInputs :
        LET r1 == write_str(Self, <<NEWLINE>>)
            r2 == write_str(r1.writer, s)
            r3 == write_str(r2.writer, <<NEWLINE>>)
        IN  /\ CanOperate
            /\ Becomes(r3.writer)
            /\ Did("writeln", s, r3.result)

Next == WriteByte \/ WriteString \/ WriteStr \/ Writeln

Spec == Init /\ [][Next]_vars

(***************************************************************************)
(* The print facade: _print, its callers, interrupts and panics            *)
(*                                                                         *)
(* A fmt::Arguments value is the sequence of its pieces: a piece is text   *)
(* handed to write_str, or an argument whose formatting itself prints, or  *)
(* an argument whose formatting returns Err.  write_fmt hands the pieces   *)
(* to the Writer one write_str call at a time.                             *)
(***************************************************************************)
Text(s) == [kind |-> "str", s |-> s]
Printing(call) == [kind |-> "print", call |-> call]
Failing == [kind |-> "err"]

\* "test_println_multiple output"
TestLine ==
    <<116, 101, 115, 116, 95, 112, 114, 105, 110, 116, 108, 110, 95, 109, 117, 108, 116, 105, 112, 108, 101, 32, 111, 117, 116, 112, 117, 116>>

\* The pieces write_fmt hands on for the arguments of a call, before the
\* macro adds anything.
Pieces(call) ==
    CASE call \in {"hello", "raw"} ->   \* ("Hello world{}", "!")
           <<Text(<<72, 101, 108, 108, 111, 32, 119, 111, 114, 108, 100>>), Text(<<33>>)>>
      [] call = "alive" ->   \* ("It did not crash!")
           <<Text(<<73, 116, 32, 100, 105, 100, 32, 110, 111, 116, 32, 99,
                    114, 97, 115, 104, 33>>)>>
      [] call = "panic" ->   \* ("{}", _info)
           <<Text(<<112, 97, 110, 105, 99>>)>>
      [] call = "tick" ->    \* ("irq"), in an interrupt handler
           <<Text(<<105, 114, 113>>)>>
      [] call = "nest" ->    \* ("<{}>", x), where x's fmt calls print!("in")
           <<Text(<<60>>), Printing("inner"), Text(<<62>>)>>
      [] call = "inner" ->   \* ("in")
           <<Text(<<105, 110>>)>>
      [] call = "bad" ->     \* ("{}", x), where x's fmt returns Err
           <<Failing>>
      [] call = "multiple" ->   \* ("test_println_multiple output")
           <<Text(TestLine)>>
      [] call = "blank" ->   \* ()
           <<>>

\* The calls made with println!; the others are made with print!
Printlns == {"hello", "alive", "panic", "tick", "multiple", "blank"}

\* Variant of println_args: nothing is added to the arguments.
println_args_bare(pieces) == pieces

\* println!() is print!("\n"); println!(args) is print!("{}\n", format_args!(args))
println_args(pieces) == pieces \o <<Text(<<NEWLINE>>)>>

Arguments(call) ==
    IF call \in Printlns THEN println_args(Pieces(call)) ELSE Pieces(call)

MainCalls == {"hello", "raw", "blank", "alive", "nest", "bad"}

Frame(call, ctx) ==
    [call |-> call, ctx |-> ctx, pc |-> "entry", i |-> 1, saved |-> FALSE]

Top == stack[Len(stack)]
SetTop(f) == [stack EXCEPT ![Len(stack)] = f]
Pop == SubSeq(stack, 1, Len(stack) - 1)
Running == stack # <<>> /\ ~halted /\ ~panicked
Piece == Arguments(Top.call)[Top.i]

\* Variant of without_interrupts_flag: the closure runs with the flag as it was.
without_interrupts_flag_kept(was_enabled) == was_enabled

\* without_interrupts: the flag the closure runs under
without_interrupts_flag(was_enabled) == FALSE

\* Variant of Once_runs_initializer: every access runs the initializer.
Once_runs_initializer_always(state) == TRUE

\* lazy_static: the initializer runs only if it has not run yet
Once_runs_initializer(state) == state = "INCOMPLETE"

\* Variant of Mutex_lock_acquires: lock() returns whether or not the mutex is held.
Mutex_lock_acquires_always(held) == TRUE

\* spin::Mutex::lock returns only once the mutex is free
Mutex_lock_acquires(held) == ~held

\* WRITER is created on its first access: before it, the static holds no
\* Writer (its fields are modelled as zero) and the device memory is as found.
InitP ==
    \E p \in Patterns, enabled \in BOOLEAN :
        LET w == WRITER(p)
        IN  /\ column_position = 0
            /\ color_code = 0
            /\ buffer = w.buffer
            /\ log = <<>>
            /\ panicked = FALSE
            /\ last = [op |-> "init", arg |-> <<>>, col0 |-> 0, result |-> "Ok"]
            /\ nops = 0
            /\ device = p
            /\ locked = FALSE
            /\ interrupts = enabled
            /\ stack = <<>>
            /\ completed = <<>>
            /\ halted = FALSE
            /\ ncalls = 0
            /\ nirqs = 0
            /\ once = "INCOMPLETE"
            /\ ninit = 0

\* A print!/println! of the normal code path calls _print
MainCall ==
    \E call \in MainCalls :
        /\ stack = <<>> /\ ~halted /\ ~panicked
        /\ ncalls < MaxCalls
        /\ ncalls' = ncalls + 1
        /\ stack' = <<Frame(call, "main")>>
        /\ UNCHANGED <<writer_vars, device, locked, interrupts, completed, halted, nirqs, init_vars>>

\* An interrupt is taken when the interrupt flag is set; the gate clears the
\* flag, and the handler prints.
Interrupt ==
    /\ interrupts /\ ~halted /\ ~panicked
    /\ nirqs < MaxIrqs
    /\ nirqs' = nirqs + 1
    /\ interrupts' = FALSE
    /\ stack' = Append(stack, Frame("tick", "irq"))
    /\ UNCHANGED <<writer_vars, device, locked, completed, halted, ncalls, init_vars>>

\* interrupts::without_interrupts(|| ...): remember the flag, disable
Enter ==
    /\ Running /\ Top.pc = "entry"
    /\ interrupts' = without_interrupts_flag(interrupts)
    /\ stack' = SetTop([Top EXCEPT !.pc = "deref", !.saved = interrupts])
    /\ UNCHANGED <<writer_vars, device, locked, completed, halted, ncalls, nirqs, init_vars>>

\* WRITER (lazy_static's Deref): the first access runs the initializer, which
\* creates the Writer over the device memory; the memory itself is not written.
Deref ==
    /\ Running /\ Top.pc = "deref"
    /\ IF Once_runs_initializer(once)
       THEN /\ column_position' = WRITER(device).column_position
            /\ color_code' = WRITER(device).color_code
            /\ once' = "COMPLETE"
            /\ ninit' = ninit + 1
       ELSE UNCHANGED <<column_position, color_code, once, ninit>>
    /\ stack' = SetTop([Top EXCEPT !.pc = "lock"])
    /\ UNCHANGED <<buffer, log, panicked, last, nops, device, locked, interrupts,
                   completed, halted, ncalls, nirqs>>

\* WRITER.lock(); log is started again, to hold the write_byte calls made
\* under this acquisition
Lock ==
    /\ Running /\ Top.pc = "lock"
    /\ Mutex_lock_acquires(locked)
    /\ locked' = TRUE
    /\ log' = <<>>
    /\ stack' = SetTop([Top EXCEPT !.pc = "fmt"])
    /\ UNCHANGED <<column_position, color_code, buffer, panicked, last, nops, device,
                   interrupts, completed, halted, ncalls, nirqs, init_vars>>

\* write_fmt: the next piece is text, handed to write_str; on Err write_fmt
\* returns it and unwrap panics, as in FmtErr
FmtStr ==
    /\ Running /\ Top.pc = "fmt" /\ Top.i <= Len(Arguments(Top.call))
    /\ Piece.kind = "str"
    /\ LET r == write_str([Self EXCEPT !.log = log], Piece.s)
       IN  /\ column_position' = r.writer.column_position
           /\ color_code' = r.writer.color_code
           /\ buffer' = r.writer.buffer
           /\ panicked' = r.writer.panicked
           /\ log' = r.writer.log
           /\ stack' = IF r.result = "Ok"
                       THEN SetTop([Top EXCEPT !.i = @ + 1])
                       ELSE Append(stack, Frame("panic", "panic"))
    /\ UNCHANGED <<last, nops, device, locked, interrupts, completed,
                   halted, ncalls, nirqs, init_vars>>

\* write_fmt: the next piece is an argument whose fmt calls print!
FmtPrint ==
    /\ Running /\ Top.pc = "fmt" /\ Top.i <= Len(Arguments(Top.call))
    /\ Piece.kind = "print"
    /\ stack' = Append(stack, Frame(Piece.call, "nested"))
    /\ UNCHANGED <<writer_vars, device, locked, interrupts, completed, halted,
                   ncalls, nirqs, init_vars>>

\* write_fmt: the next piece is an argument whose fmt returns Err: write_fmt
\* returns Err, unwrap panics while the MutexGuard temporary is alive, and the
\* panic handler prints the PanicInfo.
FmtErr ==
    /\ Running /\ Top.pc = "fmt" /\ Top.i <= Len(Arguments(Top.call))
    /\ Piece.kind = "err"
    /\ stack' = Append(stack, Frame("panic", "panic"))
    /\ UNCHANGED <<writer_vars, device, locked, interrupts, completed, halted,
                   ncalls, nirqs, init_vars>>

\* write_fmt returned Ok: the statement ends and the MutexGuard is dropped
Unlock ==
    /\ Running /\ Top.pc = "fmt" /\ Top.i > Len(Arguments(Top.call))
    /\ locked' = FALSE
    /\ stack' = SetTop([Top EXCEPT !.pc = "restore"])
    /\ UNCHANGED <<writer_vars, device, interrupts, completed, halted, ncalls, nirqs, init_vars>>

\* without_interrupts: enable interrupts again if they were enabled before
Restore ==
    /\ Running /\ Top.pc = "restore"
    /\ interrupts' = (IF Top.saved THEN TRUE ELSE interrupts)
    /\ stack' = SetTop([Top EXCEPT !.pc = "ret"])
    /\ UNCHANGED <<writer_vars, device, locked, completed, halted, ncalls, nirqs, init_vars>>

\* _print returns to its caller: the normal code path, the argument's fmt
\* (write_fmt goes on with the next piece), the interrupt handler (iret sets
\* the interrupt flag again) or the panic handler (hlt_loop).
Return ==
    /\ Running /\ Top.pc = "ret"
    /\ completed' = Append(completed,
                           [call |-> Top.call, ctx |-> Top.ctx, depth |-> Len(stack)])
    /\ stack' = IF Top.ctx = "nested"
                THEN [Pop EXCEPT ![Len(stack) - 1].i = @ + 1]
                ELSE Pop
    /\ interrupts' = (IF Top.ctx = "irq" THEN TRUE ELSE interrupts)
    /\ halted' = (IF Top.ctx = "panic" THEN TRUE ELSE halted)
    /\ UNCHANGED <<writer_vars, device, locked, ncalls, nirqs, init_vars>>

Step == Enter \/ Deref \/ Lock \/ FmtStr \/ FmtPrint \/ FmtErr \/ Unlock \/ Restore \/ Return

NextP == MainCall \/ Interrupt \/ Step

SpecP == InitP /\ [][NextP]_vars

(***************************************************************************)
(* ColorCode::new applied to every pair of colors                          *)
(***************************************************************************)
InitC ==
    \E foreground \in Color, background \in Color :
        LET w == WRITER(0)
        IN  /\ column_position = w.column_position
            /\ color_code = w.color_code
            /\ buffer = w.buffer
            /\ log = <<>>
            /\ panicked = FALSE
            /\ last = [op |-> "colors", arg |-> <<foreground, background>>,
                       col0 |-> 0, result |-> "none"]
            /\ nops = 0
            /\ device = 0
            /\ locked = FALSE
            /\ interrupts = FALSE
            /\ stack = <<>>
            /\ completed = <<>>
            /\ halted = FALSE
            /\ ncalls = 0
            /\ nirqs = 0
            /\ once = "COMPLETE"
            /\ ninit = 1

NewColorCode ==
    /\ last.op = "colors"
    /\ last' = [last EXCEPT !.op = "ColorCode_new",
                            !.result = ColorCode_new(last.arg[1], last.arg[2])]
    /\ UNCHANGED <<column_position, color_code, buffer, log, panicked, nops,
                   device, print_vars, init_vars>>

NextC == NewColorCode

SpecC == InitC /\ [][NextC]_vars

(***************************************************************************)
(* test_println_multiple: for _ in 0..200 { println!(...) }                *)
(***************************************************************************)
PRINTLN_COUNT == 200

PrintlnMultiple ==
    /\ stack = <<>> /\ ~halted /\ ~panicked
    /\ ncalls < PRINTLN_COUNT
    /\ ncalls' = ncalls + 1
    /\ stack' = <<Frame("multiple", "main")>>
    /\ UNCHANGED <<writer_vars, device, locked, interrupts, completed, halted, nirqs, init_vars>>

\* _print returns: as Return, without the record of the calls that returned
ReturnToLoop ==
    /\ Running /\ Top.pc = "ret"
    /\ stack' = Pop
    /\ UNCHANGED <<writer_vars, device, locked, interrupts, completed, halted,
                   ncalls, nirqs, init_vars>>

NextM ==
    PrintlnMultiple \/ Enter \/ Deref \/ Lock \/ FmtStr \/ Unlock \/ Restore \/ ReturnToLoop

SpecM == InitP /\ [][NextM]_vars

(***************************************************************************)
(* Helpers of the properties                                               *)
(***************************************************************************)
RECURSIVE SumScrolls(_, _)
SumScrolls(l, i) == IF i > Len(l) THEN 0 ELSE l[i].scrolls + SumScrolls(l, i + 1)

\* Number of new_line calls made by the last operation's write_byte calls.
Scrolls == SumScrolls(log, 1)

LAST_ROW == BUFFER_HEIGHT - 1

Blank == ScreenChar(32, color_code)

Representable == Printable \cup {254}

IsPrintableLine(s) == \A i \in 1 .. Len(s) : s[i] \in Printable

\* The column write_byte call i of the last operation found: the column the
\* operation started in, or the one the call before it left.
ColumnBefore(l, col0, i) ==
    IF i = 1 THEN col0
    ELSE IF l[i - 1].cell = <<>> THEN 0 ELSE l[i - 1].cell[2] + 1

\* What write_string must have done with input byte v, given the log entry e
\* of the write_byte call it made for v and the column c that call found.
ByteOutcome(v, e, c) ==
    LET target == IF c >= BUFFER_WIDTH THEN 0 ELSE c
    IN  IF v = NEWLINE THEN e.cell = <<>> /\ e.scrolls = 1
        ELSE IF v \in Printable THEN e.cell = <<LAST_ROW, target, v>>
        ELSE e.cell = <<LAST_ROW, target, 254>>

(***************************************************************************)
(* Claims about the Writer (specification Spec)                            *)
(***************************************************************************)

\* C3 as stated: for every column_position in 0..=80 and every printable byte
\* b, write_byte(b) advances column_position by exactly 1 and leaves the cells
\* of all rows other than the last row unchanged.
C3_AdvanceAnyColumn ==
    [][(last'.op = "write_byte" /\ last'.arg[1] \in Printable)
         => /\ column_position' = column_position + 1
            /\ \A r \in 0 .. (LAST_ROW - 1) : buffer'[r] = buffer[r]]_vars

\* C3 amended: for every column_position in 0..=79 and every printable byte b,
\* write_byte(b) advances column_position by exactly 1 and leaves the cells of
\* all rows other than the last row unchanged (at column 80 the byte scrolls
\* the screen first and column_position becomes 1).
C3_AdvanceBelowWidth ==
    [][(last'.op = "write_byte" /\ last'.arg[1] \in Printable
          /\ column_position < BUFFER_WIDTH)
         => /\ column_position' = column_position + 1
            /\ \A r \in 0 .. (LAST_ROW - 1) : buffer'[r] = buffer[r]]_vars

C3_Witness ==
    /\ last.op = "write_byte" /\ last.arg[1] \in Printable
    /\ last.col0 = BUFFER_WIDTH - 1
    /\ column_position = BUFFER_WIDTH

\* C4: write_byte(b'\n') sets column_position to 0, makes each row r in 0..=23
\* equal to the previous contents of row r+1, and leaves every cell of row 24
\* equal to the blank cell (0x20, current attribute).
C4_NewlineScrolls ==
    [][(last'.op = "write_byte" /\ last'.arg = <<NEWLINE>>)
         => /\ column_position' = 0
            /\ \A r \in 0 .. (LAST_ROW - 1) : buffer'[r] = buffer[r + 1]
            /\ \A c \in Cols : buffer'[LAST_ROW][c] = ScreenChar(32, color_code)
            /\ color_code' = color_code]_vars

C4_Witness ==
    /\ last.op = "write_byte" /\ last.arg = <<NEWLINE>>
    /\ last.col0 = BUFFER_WIDTH - 1
    /\ column_position = 0
    /\ buffer[LAST_ROW - 1][BUFFER_WIDTH - 2].ascii_character = 120
    /\ buffer[LAST_ROW][0] = Blank

\* C5: from column_position 0, 80 consecutive printable bytes perform no scroll
\* and leave column_position 80; the 81st printable byte then triggers exactly
\* one scroll and leaves column_position 1 with that byte stored at (24, 0).
C5_WrapAtEightyFirst ==
    /\ (last.op = "write_string" /\ last.col0 = 0 /\ IsPrintableLine(last.arg)
          /\ Len(last.arg) = BUFFER_WIDTH)
         => (Scrolls = 0 /\ column_position = BUFFER_WIDTH)
    /\ (last.op = "write_byte" /\ last.arg[1] \in Printable
          /\ last.col0 = BUFFER_WIDTH)
         => /\ Scrolls = 1
            /\ column_position = 1
            /\ buffer[LAST_ROW][0] = ScreenChar(last.arg[1], color_code)
    /\ (last.op = "write_string" /\ last.col0 = 0 /\ IsPrintableLine(last.arg)
          /\ Len(last.arg) = BUFFER_WIDTH + 1)
         => /\ Scrolls = 1
            /\ log[BUFFER_WIDTH + 1].scrolls = 1
            /\ column_position = 1
            /\ buffer[LAST_ROW][0] = ScreenChar(last.arg[BUFFER_WIDTH + 1], color_code)
            /\ \A c \in Cols :
                   buffer[LAST_ROW - 1][c] = ScreenChar(last.arg[c + 1], color_code)

C5_Witness ==
    /\ last.op = "write_string" /\ last.col0 = 0
    /\ Len(last.arg) = BUFFER_WIDTH + 1
    /\ column_position = 1

\* C6: after any sequence of write_byte, write_string and formatted writes,
\* column_position is in 0..=80 and every cell access used row < 25 and
\* col < 80 (no index ever went out of bounds).
C6_IndicesInBounds ==
    /\ column_position \in 0 .. BUFFER_WIDTH
    /\ ~panicked
    /\ \A i \in 1 .. Len(log) :
           log[i].cell # <<>> => (log[i].cell[1] \in Rows /\ log[i].cell[2] \in Cols)

C6_Witness ==
    /\ last.op = "write_string" /\ last.col0 = BUFFER_WIDTH
    /\ Len(last.arg) = BUFFER_WIDTH + 1
    /\ Scrolls = 2
    /\ column_position = 1

\* C7: for every byte v of the input of write_string: a printable v is stored
\* as v; a newline stores no character cell and scrolls; every other v is
\* stored at the target position as 0xFE, not as v.  Checked on the string the
\* last write_string was given, and on every one-byte input 0..255 from every
\* state in which the Writer can still be operated.
C7_PlaceholderForUnprintable ==
    /\ last.op = "write_string"
         => /\ Len(log) = Len(last.arg)
            /\ \A i \in 1 .. Len(last.arg) :
                   ByteOutcome(last.arg[i], log[i], ColumnBefore(log, last.col0, i))
    /\ CanOperate =>
         \A v \in 0 .. 255 :
             LET w == write_string(Self, <<v>>)
             IN  /\ Len(w.log) = 1
                 /\ ByteOutcome(v, w.log[1], column_position)
                 /\ v # NEWLINE =>
                        w.buffer[LAST_ROW][w.log[1].cell[2]].ascii_character
                            = (IF v \in Printable THEN v ELSE 254)

C7_Witness ==
    /\ last.op = "write_string" /\ last.arg = MixedString /\ last.col0 = 0
    /\ buffer[LAST_ROW - 1][1] = ScreenChar(254, color_code)
    /\ buffer[LAST_ROW - 1][4] = ScreenChar(254, color_code)
    /\ buffer[LAST_ROW][1] = ScreenChar(126, color_code)

\* C8 as stated: after any sequence of calls to write_byte, write_string and
\* write_str, every character byte the Writer stored into a cell is printable
\* ASCII or 0xFE.
C8_OnlyRepresentableStored ==
    \A i \in 1 .. Len(log) :
        log[i].cell # <<>> => log[i].cell[3] \in Representable

\* C8 amended: every character byte stored by write_string and by
\* fmt::Write::write_str (alone or through write_fmt) is printable ASCII or
\* 0xFE; write_byte called directly stores its argument verbatim.
C8_StringsStoreRepresentable ==
    /\ last.op \in {"write_string", "write_str", "writeln"}
         => \A i \in 1 .. Len(log) :
                log[i].cell # <<>> => log[i].cell[3] \in Representable
    /\ (last.op = "write_byte" /\ last.arg # <<NEWLINE>>)
         => (Len(log) = 1 /\ log[1].cell[3] = last.arg[1])

C8_Witness ==
    /\ last.op = "write_str" /\ last.arg = MixedString /\ last.col0 = BUFFER_WIDTH
    /\ Len(log) = Len(MixedString)
    /\ log[2].cell = <<LAST_ROW, 1, 254>>

\* C9 as stated: write_string of "Test string that fits on a single line" on a
\* fresh bottom row leaves cells (24, 0..39) holding exactly the 39 characters
\* of that string in order, each with the current attribute.
C9_ThirtyNineCharacters ==
    [][(last'.op = "write_string" /\ last'.arg = TestString
          /\ column_position = 0
          /\ \A c \in Cols : buffer[LAST_ROW][c] = Blank)
         => /\ Len(TestString) = 39
            /\ \A i \in 0 .. (39 - 1) :
                   buffer'[LAST_ROW][i] = ScreenChar(TestString[i + 1], color_code')]_vars

\* C9 amended: the string has 38 characters: the call leaves cells
\* (24, 0..37) holding exactly the 38 characters of that string in order, each
\* with the current attribute, and column_position 38.
C9_ThirtyEightCharacters ==
    [][(last'.op = "write_string" /\ last'.arg = TestString
          /\ column_position = 0
          /\ \A c \in Cols : buffer[LAST_ROW][c] = Blank)
         => /\ Len(TestString) = 38
            /\ \A i \in 0 .. (38 - 1) :
                   buffer'[LAST_ROW][i] = ScreenChar(TestString[i + 1], color_code')
            /\ column_position' = 38]_vars

C9_Witness ==
    /\ last.op = "write_string" /\ last.arg = TestString /\ last.col0 = 0
    /\ buffer[LAST_ROW][0] = ScreenChar(84, color_code)
    /\ buffer[LAST_ROW][37] = ScreenChar(101, color_code)
    /\ \A c \in 38 .. (BUFFER_WIDTH - 1) : buffer[LAST_ROW][c] = Blank

\* C10: for every printable s without newline of length <= 80,
\* writeln!(writer, "\n{}", s) leaves row 23 with cell i holding s[i] for
\* i < len(s), the rest of row 23 blank, row 24 blank and column_position 0.
C10_WritelnOnRowAboveLast ==
    (last.op = "writeln" /\ IsPrintableLine(last.arg)
       /\ Len(last.arg) <= BUFFER_WIDTH)
      => /\ \A c \in Cols :
                buffer[LAST_ROW - 1][c] =
                    (IF c < Len(last.arg)
                     THEN ScreenChar(last.arg[c + 1], color_code)
                     ELSE Blank)
         /\ \A c \in Cols : buffer[LAST_ROW][c] = Blank
         /\ column_position = 0

C10_Witness ==
    /\ last.op = "writeln" /\ Len(last.arg) = BUFFER_WIDTH
    /\ last.col0 = BUFFER_WIDTH
    /\ buffer[LAST_ROW - 1][BUFFER_WIDTH - 1] = ScreenChar(122, color_code)
    /\ column_position = 0

(***************************************************************************)
(* Claims about the print facade (specification SpecP)                     *)
(***************************************************************************)
\* The text a call hands to the Writer itself (what an argument's own print
\* call writes belongs to that call).
OwnText(call) == SelectSeq(Arguments(call), LAMBDA piece : piece.kind = "str")

RECURSIVE RunPieces(_, _, _)
RunPieces(w, pieces, k) ==
    IF k > Len(pieces) THEN w
    ELSE RunPieces(write_str(w, pieces[k].s).writer, pieces, k + 1)

\* The Writer after the calls of `calls` ran one after the other, each fully.
RECURSIVE RunCalls(_, _, _)
RunCalls(w, calls, k) ==
    IF k > Len(calls) THEN w
    ELSE RunCalls(RunPieces(w, OwnText(calls[k]), 1), calls, k + 1)

Orders(n) == {f \in [1 .. n -> 1 .. n] : \A a, b \in 1 .. n : f[a] = f[b] => a = b}

\* C1: the bytes of print calls are never interleaved, also when one of them
\* is made by an interrupt handler or from inside the other: whenever no call
\* is in progress, the buffer and column_position are those of running the
\* calls that returned fully one after the other, in one of their orders.
C1_NoInterleaving ==
    stack = <<>> =>
        \E f \in Orders(Len(completed)) :
            LET order == [k \in 1 .. Len(completed) |-> completed[f[k]].call]
                w == RunCalls(WRITER(device), order, 1)
            IN  w.column_position = column_position /\ w.buffer = buffer

\* An interrupt handler printed while a print of the normal path was in
\* progress, and both calls returned.
C1_Witness ==
    /\ stack = <<>>
    /\ \E a, b \in 1 .. Len(completed) :
           /\ a < b
           /\ completed[a].ctx = "irq" /\ completed[a].depth = 2
           /\ completed[b].ctx = "main" /\ completed[b].call = "hello"
    /\ column_position = 0

\* C2: once started, a print call always completes: whenever a _print call is
\* in progress (and the kernel has not halted), the innermost call can take
\* its next step: a call that has reached WRITER.lock() can acquire the lock
\* (every other step of _print is always possible); no call waits for the
\* lock that a call beneath it holds.
C2_PrintAlwaysProceeds ==
    (stack # <<>> /\ ~halted /\ Top.pc = "lock") => ENABLED Lock

(***************************************************************************)
(* Claims about test_println_multiple (specification SpecM)                *)
(***************************************************************************)
RowHolds(r, s) ==
    \A c \in Cols :
        buffer[r][c] = (IF c < Len(s) THEN ScreenChar(s[c + 1], color_code) ELSE Blank)

AfterAllPrintlns == ncalls = PRINTLN_COUNT /\ stack = <<>>

\* C11 as stated: after 200 identical println! lines the buffer still has
\* exactly 25 rows, all 25 rows hold the line's text, and no row index >= 25
\* was accessed at any step.
C11_AllRowsHoldLine ==
    /\ DOMAIN buffer = Rows
    /\ ~panicked
    /\ AfterAllPrintlns => \A r \in Rows : RowHolds(r, TestLine)

\* C11 amended: after 200 identical println! lines the buffer still has
\* exactly 25 rows, rows 0..23 hold the line's text (the most recent 24
\* lines), row 24 is blank with column_position 0, and no row index >= 25 was
\* accessed at any step.
C11_RowsAboveLastHoldLine ==
    /\ DOMAIN buffer = Rows
    /\ \A r \in Rows : DOMAIN buffer[r] = Cols
    /\ ~panicked
    /\ AfterAllPrintlns =>
           /\ \A r \in 0 .. (LAST_ROW - 1) : RowHolds(r, TestLine)
           /\ RowHolds(LAST_ROW, <<>>)
           /\ column_position = 0

C11_Witness ==
    /\ AfterAllPrintlns
    /\ buffer[0][0] = ScreenChar(116, color_code)
    /\ buffer[LAST_ROW - 1][Len(TestLine) - 1] = ScreenChar(116, color_code)
    /\ device = 1

(***************************************************************************)
(* Claims about ColorCode (specification SpecC)                            *)
(***************************************************************************)
\* C12: for all 16 x 16 pairs (foreground, background), ColorCode::new yields
\* a byte whose low nibble is the foreground's code and whose high nibble is
\* the background's code.
C12_NibblesRoundTrip ==
    last.op = "ColorCode_new" =>
        /\ last.result \in 0 .. 255
        /\ last.result % 16 = last.arg[1]
        /\ last.result \div 16 = last.arg[2]

C12_Witness ==
    /\ last.op = "ColorCode_new"
    /\ last.arg = <<7, 9>>
    /\ last.result = 151

(***************************************************************************)
(* Claims about the shared WRITER (specification SpecP)                    *)
(***************************************************************************)
\* C13: WRITER is initialized exactly once, on first access: the initializer
\* (column_position 0, the buffer at 0xb8000 as found) runs at the first
\* access and never again, and a later access neither re-initializes the
\* Writer nor resets column_position.
C13_InitializedOnce ==
    [][/\ ninit' # ninit =>
            /\ stack # <<>> /\ Top.pc = "deref"
            /\ ninit = 0 /\ ninit' = 1
            /\ column_position' = 0
            /\ color_code' = ColorCode_new(Green, Black)
            /\ buffer' = DeviceMemory(device)
       /\ (stack # <<>> /\ Top.pc = "deref" /\ stack' # stack) =>
            /\ ninit' = 1
            /\ once' = "COMPLETE"
            /\ ninit = 1 => UNCHANGED <<column_position, color_code, buffer>>
       /\ (stack # <<>> /\ Top.pc \in {"lock", "fmt"}) => ninit = 1]_vars

\* A second access (by a print call made from inside another, which has
\* written "<") found the Writer initialized and left column_position alone.
C13_Witness ==
    /\ ninit = 1
    /\ Len(stack) = 2
    /\ Top.ctx = "nested" /\ Top.pc = "lock"
    /\ column_position = 1

(***************************************************************************)
(* Further claims about the Writer (specification Spec)                    *)
(***************************************************************************)
NewlineOnFullLine ==
    last.op = "write_byte" /\ last.arg = <<NEWLINE>> /\ last.col0 = BUFFER_WIDTH

\* C14 as stated: when the line is exactly full (column_position == 80) and
\* the next byte written is a newline, the newline results in two scrolls.
C14_TwoScrollsOnFullLine ==
    NewlineOnFullLine => Scrolls = 2

\* C14 amended: when the line is exactly full and the next byte written is a
\* newline, the newline results in exactly one scroll: the full line moves to
\* row 23, row 24 is blank and column_position is 0 (a full line does not
\* scroll until a byte other than newline is written).
C14_OneScrollOnFullLine ==
    [][/\ (last'.op = "write_byte" /\ last'.arg = <<NEWLINE>>
             /\ column_position = BUFFER_WIDTH) =>
            /\ SumScrolls(log', 1) = 1
            /\ column_position' = 0
            /\ \A r \in 0 .. (LAST_ROW - 1) : buffer'[r] = buffer[r + 1]
            /\ \A c \in Cols : buffer'[LAST_ROW][c] = ScreenChar(32, color_code)
       /\ (last'.op = "writeln" /\ Len(last'.arg) = BUFFER_WIDTH
             /\ IsPrintableLine(last'.arg)) =>
            /\ SumScrolls(log', 1) = 2
            /\ log'[Len(log')] = [scrolls |-> 1, cell |-> <<>>]
            /\ \A c \in Cols :
                   buffer'[LAST_ROW - 1][c] = ScreenChar(last'.arg[c + 1], color_code)
            /\ \A r \in 0 .. (LAST_ROW - 2) : buffer'[r] = buffer[r + 2]]_vars

C14_Witness ==
    /\ NewlineOnFullLine
    /\ Scrolls = 1
    /\ buffer[LAST_ROW - 1][BUFFER_WIDTH - 1] = ScreenChar(120, color_code)
    /\ buffer[LAST_ROW][0] = Blank

(***************************************************************************)
(* Further claims about the print facade (specification SpecP)             *)
(***************************************************************************)
TopStepped(from, to) ==
    /\ stack # <<>> /\ Top.pc = from
    /\ Len(stack') = Len(stack)
    /\ stack'[Len(stack')].pc = to

\* C15: whenever the WRITER lock is held, interrupts are disabled; within one
\* _print call interrupts are disabled before the lock is acquired, every cell
\* write happens with the lock held, and the interrupt flag is restored only
\* after the lock is released, to what it was on entry (it is not set if
\* interrupts were disabled on entry).
C15_LockHeldWithInterruptsOff ==
    [][/\ locked => ~interrupts
       /\ locked' => ~interrupts'
       /\ TopStepped("entry", "deref") =>
              (~interrupts' /\ locked' = locked /\ stack'[Len(stack')].saved = interrupts)
       /\ (~locked /\ locked') => (TopStepped("lock", "fmt") /\ ~interrupts)
       /\ buffer' # buffer => (locked /\ locked' /\ ~interrupts /\ TopStepped("fmt", "fmt"))
       /\ (locked /\ ~locked') => (TopStepped("fmt", "restore") /\ ~interrupts')
       /\ TopStepped("restore", "ret") => (~locked /\ interrupts' = Top.saved)
       /\ (~interrupts /\ interrupts') =>
              (~locked /\ (TopStepped("restore", "ret") \/ Top.ctx = "irq"))]_vars

C15_Witness ==
    /\ Len(stack) = 1
    /\ Top.pc = "fmt" /\ Top.i = 2 /\ Top.saved
    /\ locked /\ ~interrupts
    /\ column_position = 11

(***************************************************************************)
(* Further claims about the Writer (specification Spec)                    *)
(***************************************************************************)
\* C16: with column_position < 80, write_byte of a byte other than newline
\* changes exactly the cell (24, column_position), to the byte with the
\* current attribute, adds 1 to column_position, and leaves every other cell
\* and color_code unchanged.
C16_OneCellChanged ==
    [][(last'.op = "write_byte" /\ last'.arg # <<NEWLINE>>
          /\ column_position < BUFFER_WIDTH) =>
           /\ buffer'[LAST_ROW][column_position] = ScreenChar(last'.arg[1], color_code)
           /\ \A r \in Rows : \A c \in Cols :
                  (r # LAST_ROW \/ c # column_position) => buffer'[r][c] = buffer[r][c]
           /\ column_position' = column_position + 1
           /\ color_code' = color_code
           /\ ~panicked']_vars

C16_Witness ==
    /\ last.op = "write_byte" /\ last.arg = <<254>>
    /\ last.col0 = 40 /\ column_position = 41
    /\ buffer[LAST_ROW][40] = ScreenChar(254, color_code)
    /\ buffer[LAST_ROW][41] # Blank
    /\ nops = 1

(***************************************************************************)
(* println! against print!                                                 *)
(***************************************************************************)
RECURSIVE Flat(_)
Flat(pieces) ==
    IF pieces = <<>> THEN <<>> ELSE Head(pieces).s \o Flat(Tail(pieces))

\* The bytes handed to write_byte under the last lock acquisition
Written == [i \in 1 .. Len(log) |-> IF log[i].cell = <<>> THEN NEWLINE ELSE log[i].cell[3]]

Released == stack # <<>> /\ Top.pc \in {"restore", "ret"}

\* C17: println!(args) writes, inside one lock acquisition, the bytes of
\* print!(args) followed by one newline, and println!() writes one newline;
\* when a println! returns, column_position is 0 and every cell of row 24 is
\* the blank cell.
C17_PrintlnIsPrintThenNewline ==
    /\ (Released /\ Top.pc = "restore" /\ Top.call = "raw")
           => Written = Flat(Pieces("raw"))
    /\ (Released /\ Top.pc = "restore" /\ Top.call \in Printlns)
           => /\ Written = Flat(Pieces(Top.call)) \o <<NEWLINE>>
              /\ ~locked
    /\ (Released /\ Top.call \in Printlns)
           => /\ column_position = 0
              /\ \A c \in Cols : buffer[LAST_ROW][c] = Blank

C17_Witness ==
    /\ Released /\ Top.pc = "ret" /\ Top.call = "hello"
    /\ Written = Flat(Pieces("raw")) \o <<NEWLINE>>
    /\ Len(completed) = 1 /\ completed[1].call = "blank"
    /\ column_position = 0
    /\ buffer[LAST_ROW][0] = Blank
    /\ buffer[LAST_ROW - 1][0].ascii_character = 72

(***************************************************************************)
(* Lazy line wrap                                                          *)
(***************************************************************************)
NoNewline(s) == \A i \in 1 .. Len(s) : s[i] # NEWLINE

\* The last operation made one write_byte call per byte of its argument, none
\* of them for a newline.
WroteBytesOnly ==
    /\ last.op \in {"write_byte", "write_string", "write_str"}
    /\ Len(last.arg) >= 1
    /\ NoNewline(last.arg)

\* C18: n >= 1 bytes other than newline written from column c (0 to 80) make
\* floor((c + n - 1) / 80) scrolls and leave column_position at
\* ((c + n - 1) mod 80) + 1, which is never 0.
C18_LazyWrap ==
    WroteBytesOnly =>
        LET c == last.col0
            n == Len(last.arg)
        IN  /\ ~panicked
            /\ Len(log) = n
            /\ Scrolls = (c + n - 1) \div BUFFER_WIDTH
            /\ column_position = ((c + n - 1) % BUFFER_WIDTH) + 1
            /\ column_position # 0

C18_Witness ==
    /\ WroteBytesOnly
    /\ last.col0 = BUFFER_WIDTH /\ Len(last.arg) = BUFFER_WIDTH + 1
    /\ Scrolls = 2
    /\ column_position = 1

(***************************************************************************)
(* Clearing the screen with newlines                                       *)
(***************************************************************************)
BlankRow(b, r) == \A c \in Cols : b[r][c] = ScreenChar(32, color_code)

\* C19: from any buffer contents and any column_position, 25 newlines in a
\* row leave every cell of the buffer blank (0x20 with the current attribute)
\* and column_position 0; after 24 newlines rows 1 to 24 are blank and row 0
\* holds what row 24 held before, so earlier contents can still be seen.
C19_NewlinesClearScreen ==
    [][/\ (last'.op = "write_string" /\ last'.arg = Rep(BUFFER_HEIGHT, NEWLINE)) =>
              /\ \A r \in Rows : BlankRow(buffer', r)
              /\ column_position' = 0
              /\ SumScrolls(log', 1) = BUFFER_HEIGHT
              /\ color_code' = color_code
       /\ (last'.op = "write_string" /\ last'.arg = Rep(BUFFER_HEIGHT - 1, NEWLINE)) =>
              /\ \A r \in 1 .. LAST_ROW : BlankRow(buffer', r)
              /\ buffer'[0] = buffer[LAST_ROW]
              /\ column_position' = 0]_vars

C19_Witness ==
    /\ last.op = "write_string" /\ last.arg = Rep(BUFFER_HEIGHT, NEWLINE)
    /\ device = 1 /\ nops = 1 /\ last.col0 = BUFFER_WIDTH
    /\ \A r \in Rows : BlankRow(buffer, r)
    /\ column_position = 0

(***************************************************************************)
(* Errors                                                                  *)
(***************************************************************************)
\* The write_byte calls the last operation made are those its pieces call
\* for, one per byte and each with its whole effect.
PiecesWritten(s) ==
    /\ Len(log) = Len(s)
    /\ \A i \in 1 .. Len(s) : ByteOutcome(s[i], log[i], ColumnBefore(log, last.col0, i))

\* C20: write_str returns Ok(()) whatever the string and the Writer state, so
\* a write_fmt that fails does not fail because of the Writer; the string is
\* neither rejected nor written in part: every byte of it has had its write.
C20_WriteStrReturnsOk ==
    /\ last.op = "write_str" =>
           (last.result = "Ok" /\ ~panicked /\ PiecesWritten(last.arg))
    /\ last.op = "writeln" =>
           (last.result = "Ok" /\ ~panicked
              /\ PiecesWritten(<<NEWLINE>> \o last.arg \o <<NEWLINE>>))

C20_Witness ==
    /\ last.op = "write_str" /\ last.arg = MixedString
    /\ last.result = "Ok"
    /\ last.col0 = BUFFER_WIDTH
    /\ Len(log) = Len(MixedString)
    /\ column_position = 2

====
